---------------------------- MODULE Spec2Model ----------------------------
(***************************************************************************)
(* The board engine of BigMinesweeper (minesweeper/core.py, tile.py) and    *)
(* the application that drives it (minesweeper/main.py) as a state         *)
(* machine.  A tile is addressed by its key, the column name               *)
(* followed by the row name ('A1' in the source); here the key is the pair *)
(* <<column, row>>, a column being named by its position in sorted_letters *)
(* and a row by the integer its name str(x + 1) denotes.                   *)
(***************************************************************************)
EXTENDS Integers, Sequences, FiniteSets, TLC

VARIABLES
    rows,            \* MineSweeper.rows: number of entries {x: str(x + 1)}
    columns,         \* MineSweeper.columns: number of entries {x: sorted_letters[x]}
    tiles,           \* MineSweeper.tiles: key -> Tile
    num_bombs,       \* MineSweeper.num_bombs
    time,            \* MineSweeper.time
    unmarked_bombs,  \* MineSweeper.unmarked_bombs
    pc,              \* "idle", or "scatter" inside the loop of scatter_bombs
    x,               \* iterations of the for loop of scatter_bombs still to run
    tile_to_avoid,   \* argument of the running (or last) scatter_bombs call
    scatters,        \* scatter_bombs calls since the last setup / reset
    last,            \* the last call: its name, the tile click_tile or
                     \* scatter_bombs was given (tile_to_avoid), its result,
                     \* the number of tiles it revealed, and whether it is a
                     \* click_tile that directly follows the return of
                     \* scatter_bombs(tile_to_avoid = the same tile)
    stack,           \* the running click_tile calls that are inside their for
                     \* loop, outermost first: the tile, the list the loop
                     \* runs over and the position of the loop in it
    entry,           \* MineSweeper.tiles when the outermost running click_tile
                     \* was called
    calls,           \* click_tile calls made by and including the last
                     \* outermost one
    is_frozen,       \* MinesweeperApp.is_frozen
    first_btn_clicked,  \* MinesweeperApp.first_btn_clicked
    after,           \* callbacks of MinesweeperApp.tick scheduled with
                     \* time.after(...) that have not fired yet
    buttons,         \* MinesweeperApp.widgets['buttons']: the button of each
                     \* tile, its image (the key in MinesweeperApp.images)
                     \* and is_disabled
    marks,           \* MinesweeperApp.menu_vars['marks'] is 1
    current_difficulty_level,  \* MinesweeperApp.current_difficulty_level
    best_times,      \* MinesweeperApp.best_times: level -> (time, name)
    dialog_values    \* what dialogs.ask_custom_difficulty returned last:
                     \* CustomDialog.result

vars == <<rows, columns, tiles, num_bombs, time, unmarked_bombs, pc, x,
          tile_to_avoid, scatters, last, stack, entry, calls,
          is_frozen, first_btn_clicked, after, buttons, marks,
          current_difficulty_level, best_times,
          dialog_values>>

\* the part of the state only a click_tile call followed step by step changes
clickvars == <<stack, entry, calls>>

\* the part of the state only MinesweeperApp (main.py) changes
uivars == <<is_frozen, first_btn_clicked, after, buttons, marks,
            current_difficulty_level, best_times,
            dialog_values>>

-----------------------------------------------------------------------------
(* Bounds of the exploration. *)

\* setup is called with bombs in -1 .. MaxBombs
MaxBombs == 2
\* mark_tile is called while it leaves at most MaxMarked tiles marked
MaxMarked == 2
\* at most MaxScatters scatter_bombs calls per game
MaxScatters == 2
\* tick is called while time < MaxTicks
MaxTicks == 1
\* at most ClockTicks tick calls in a row, where the clock is run to its end
ClockTicks == 1002

\* (variant) a ceiling one later
time_ceiling_late == 999 + 1

\* ceiling of MineSweeper.time
TimeCeiling == 999

\* tile_to_avoid=None
None == <<0, 0>>

\* the levels MinesweeperApp.best_times has an entry for, as read_best_times
\* expects them in the file and show_best_times sets them
TimedLevels == {"beginner", "intermediate", "expert"}

\* CustomDialog.result = None
NoResult == <<>>

\* an entry (time, name) of MinesweeperApp.best_times
BestTime(t, name) == [time |-> t, name |-> name]

-----------------------------------------------------------------------------
(* tile.py *)

\* deque(('none', 'flag', 'question'))
InitMarks == <<"none", "flag", "question">>

\* deque.rotate(-1): the first element moves to the end
rotate(d) == Tail(d) \o <<Head(d)>>

\* Tile.__init__
Tile(neighbours) ==
    [neighbours |-> neighbours, is_clicked |-> FALSE, is_safe |-> TRUE,
     marks |-> InitMarks, mark |-> InitMarks[1], number |-> 0]

\* (variant) change_mark that turns the deque the other way
change_mark_back(tile) ==
    LET m == rotate(rotate(tile.marks)) IN [tile EXCEPT !.marks = m, !.mark = m[1]]

\* (variant) change_mark that only sets and takes off the flag
change_mark_toggle(tile) ==
    [tile EXCEPT !.mark = IF @ = "none" THEN "flag" ELSE "none"]

\* Tile.change_mark
change_mark(tile) ==
    LET m == rotate(tile.marks) IN [tile EXCEPT !.marks = m, !.mark = m[1]]

\* (variant) reset_mark that leaves the deque as it is
reset_mark_keeps_deque(tile) == [tile EXCEPT !.mark = "none"]

\* Tile.reset_mark
reset_mark(tile) == [tile EXCEPT !.marks = InitMarks, !.mark = InitMarks[1]]

-----------------------------------------------------------------------------
(* core.py: geometry *)

\* list.index
index(lst, v) == CHOOSE i \in 1..Len(lst) : lst[i] = v /\ \A j \in 1..(i-1) : lst[j] # v

\* (variant) _prev that returns the element itself
_prev_stays(lst, idx) == idx

\* lst[lst.index(idx) - 1]; a Python index of -1 is the last element
_prev(lst, idx) ==
    LET i == index(lst, idx) IN IF i = 1 THEN lst[Len(lst)] ELSE lst[i - 1]

\* (variant) _next that returns the element itself
_next_stays(lst, idx) == idx

\* lst[lst.index(idx) + 1]
_next(lst, idx) == lst[index(lst, idx) + 1]

\* the names of nrows rows, sorted by int; of ncols columns, sorted
RowNames(nrows) == [i \in 1..nrows |-> i]
ColNames(ncols) == [i \in 1..ncols |-> i]

\* column + row
Key(c, r) == <<c, r>>

\* sorted(ascii_letters)
sorted_letters ==
    <<"A", "B", "C", "D", "E", "F", "G", "H", "I", "J", "K", "L",
      "M", "N", "O", "P", "Q", "R", "S", "T", "U", "V", "W", "X",
      "Y", "Z", "a", "b", "c", "d", "e", "f", "g", "h", "i", "j",
      "k", "l", "m", "n", "o", "p", "q", "r", "s", "t", "u", "v",
      "w", "x", "y", "z">>

\* str(n) for n >= 0, a sequence of characters
RECURSIVE str(_)
str(n) ==
    LET digit == <<"0", "1", "2", "3", "4", "5", "6", "7", "8", "9">>[(n % 10) + 1]
    IN  IF n < 10 THEN <<digit>> ELSE str(n \div 10) \o <<digit>>

\* (variant) the key without the column
key_name_row_only(k) == str(k[2])

\* the key self.tiles holds the tile <<column, row>> under: the column name
\* sorted_letters[x] followed by the row name str(x + 1)
key_name(k) == <<sorted_letters[k[1]]>> \o str(k[2])

\* MineSweeper.get_neighbours: the keys in the order the dict is filled
get_neighbours(nrows, ncols, r, c) ==
    LET rs == RowNames(nrows)
        cs == ColNames(ncols)
        first_r == r = rs[1]
        last_r == r = rs[Len(rs)]
        first_c == c = cs[1]
        last_c == c = cs[Len(cs)]
    IN  (IF ~first_r /\ ~first_c THEN <<Key(_prev(cs, c), _prev(rs, r))>> ELSE <<>>)
     \o (IF ~first_r THEN <<Key(c, _prev(rs, r))>> ELSE <<>>)
     \o (IF ~first_r /\ ~last_c THEN <<Key(_next(cs, c), _prev(rs, r))>> ELSE <<>>)
     \o (IF ~last_r /\ ~first_c THEN <<Key(_prev(cs, c), _next(rs, r))>> ELSE <<>>)
     \o (IF ~last_r THEN <<Key(c, _next(rs, r))>> ELSE <<>>)
     \o (IF ~last_r /\ ~last_c THEN <<Key(_next(cs, c), _next(rs, r))>> ELSE <<>>)
     \o (IF ~first_c THEN <<Key(_prev(cs, c), r)>> ELSE <<>>)
     \o (IF ~last_c THEN <<Key(_next(cs, c), r)>> ELSE <<>>)

\* the keys of a board
Keys(nrows, ncols) == {Key(c, r) : c \in 1..ncols, r \in 1..nrows}

\* (variant) get_adjacent_tiles with the first neighbour only
get_adjacent_tiles_first(ts, k) ==
    IF ts[k].neighbours = <<>> THEN <<>> ELSE <<ts[k].neighbours[1]>>

\* MineSweeper.get_adjacent_tiles: the keys of the tile's neighbours, in order
get_adjacent_tiles(ts, k) == ts[k].neighbours

\* range of a sequence
Range(s) == {s[i] : i \in 1..Len(s)}

-----------------------------------------------------------------------------
(* core.py: operations on the tiles *)

\* the tiles setup creates
NewTiles(nrows, ncols) ==
    [k \in Keys(nrows, ncols) |-> Tile(get_neighbours(nrows, ncols, k[2], k[1]))]

\* (variant) set_tile_nums that adds 1 once if any adjacent tile is a bomb
set_tile_nums_once(ts) ==
    [k \in DOMAIN ts |->
        [ts[k] EXCEPT !.number =
            @ + IF \E i \in 1..Len(ts[k].neighbours) :
                        ~ts[ts[k].neighbours[i]].is_safe
                THEN 1 ELSE 0]]

\* (variant) set_tile_nums that also takes is_clicked back
set_tile_nums_unclicks(ts) ==
    [k \in DOMAIN ts |->
        [ts[k] EXCEPT !.is_clicked = FALSE,
                      !.number =
            @ + Cardinality({i \in 1..Len(ts[k].neighbours) :
                                ~ts[ts[k].neighbours[i]].is_safe})]]

\* MineSweeper.set_tile_nums: number += 1 for every adjacent tile that is a bomb
set_tile_nums(ts) ==
    [k \in DOMAIN ts |->
        [ts[k] EXCEPT !.number =
            @ + Cardinality({i \in 1..Len(ts[k].neighbours) :
                                ~ts[ts[k].neighbours[i]].is_safe})]]

\* (variant) click_tile without the test of the mark
clickable_despite_flag(tile) == ~tile.is_clicked

\* (variant) click_tile stopped by any mark
clickable_only_unmarked(tile) == ~tile.is_clicked /\ tile.mark = "none"

\* (variant) click_tile without the test of is_clicked
clickable_again(tile) == tile.mark # "flag"

\* click_tile acts on a tile that is neither clicked nor marked 'flag'
clickable(tile) == ~tile.is_clicked /\ tile.mark # "flag"

\* (variant) click_tile going on from every safe tile
cascades_from_numbered(tile) == tile.is_safe

\* (variant) click_tile going on from every tile with number 0, bombs included
cascades_from_bombs(tile) == tile.number = 0

\* click_tile goes on to the adjacent tiles from a safe tile with number 0
cascades(tile) == tile.number = 0 /\ tile.is_safe

RECURSIVE click_tile(_, _)
RECURSIVE click_each(_, _, _)

\* (variant) the for loop left after its first round
click_each_first_only(ts, todo, i) ==
    IF i > Len(todo) \/ i > 1 THEN ts
    ELSE click_each(click_tile(ts, todo[i]).tiles, todo, i + 1)

\* the for loop of click_tile over the adjacent tiles selected before it starts
click_each(ts, todo, i) ==
    IF i > Len(todo) THEN ts
    ELSE click_each(click_tile(ts, todo[i]).tiles, todo, i + 1)

\* MineSweeper.click_tile: the tiles afterwards and the value returned
click_tile(ts, k) ==
    IF clickable(ts[k])
    THEN LET ts1 == [ts EXCEPT ![k].is_clicked = TRUE] IN
         IF cascades(ts1[k])
         THEN LET adjacent_tiles == get_adjacent_tiles(ts1, k)
                  todo == SelectSeq(adjacent_tiles, LAMBDA a : ~ts1[a].is_clicked)
              IN  [tiles |-> click_each(ts1, todo, 1), ret |-> TRUE]
         ELSE [tiles |-> ts1, ret |-> FALSE]
    ELSE [tiles |-> ts, ret |-> FALSE]

\* the keys in the order of self.tiles.values() (rows outer, columns inner)
KeyOrder(nrows, ncols) ==
    [i \in 1..(nrows * ncols) |-> Key(((i - 1) % ncols) + 1, ((i - 1) \div ncols) + 1)]

RECURSIVE click_bombs_from(_, _, _)
\* the loop of click_all_bombs
click_bombs_from(ts, order, i) ==
    IF i > Len(order) THEN ts
    ELSE click_bombs_from(IF ~ts[order[i]].is_safe
                          THEN click_tile(ts, order[i]).tiles ELSE ts,
                          order, i + 1)

\* (variant) game_is_won that a clicked bomb denies
game_is_won_unless_lost ==
    /\ \A k \in DOMAIN tiles : ~(tiles[k].is_safe /\ ~tiles[k].is_clicked)
    /\ \A k \in DOMAIN tiles : ~(~tiles[k].is_safe /\ tiles[k].is_clicked)

\* MineSweeper.game_is_won
game_is_won == \A k \in DOMAIN tiles : ~(tiles[k].is_safe /\ ~tiles[k].is_clicked)

\* (variant) game_is_lost only when every bomb is clicked
game_is_lost_all_bombs ==
    /\ \E k \in DOMAIN tiles : ~tiles[k].is_safe
    /\ \A k \in DOMAIN tiles : ~tiles[k].is_safe => tiles[k].is_clicked

\* MineSweeper.game_is_lost
game_is_lost == \E k \in DOMAIN tiles : ~tiles[k].is_safe /\ tiles[k].is_clicked

\* MineSweeper.game_is_over
game_is_over == game_is_won \/ game_is_lost

\* the tiles that are revealed / bombs
Clicked(ts) == {k \in DOMAIN ts : ts[k].is_clicked}
Bombs(ts) == {k \in DOMAIN ts : ~ts[k].is_safe}

-----------------------------------------------------------------------------
(* The state machine *)

NoCall == [op |-> "init", tile |-> None, ret |-> FALSE, n |-> 0, avoided |-> FALSE]
Call(op, k, ret) == [NoCall EXCEPT !.op = op, !.tile = k, !.ret = ret]

\* MineSweeper.__init__, and MinesweeperApp.__init__ up to start_game; the
\* best times read from the file are times no game can beat (InitTimes
\* starts from other ones)
Init ==
    /\ rows = 0
    /\ columns = 0
    /\ tiles = <<>>
    /\ num_bombs = 0
    /\ time = 0
    /\ unmarked_bombs = 0
    /\ pc = "idle"
    /\ x = 0
    /\ tile_to_avoid = None
    /\ scatters = 0
    /\ last = NoCall
    /\ stack = <<>>
    /\ entry = <<>>
    /\ calls = 0
    /\ is_frozen = FALSE
    /\ first_btn_clicked = FALSE
    /\ after = 0
    /\ buttons = <<>>
    /\ marks = TRUE
    /\ current_difficulty_level = "none"
    /\ best_times = [l \in TimedLevels |-> BestTime(0, "Anonymous")]
    /\ dialog_values = NoResult

\* scatter_bombs entered with the tiles ts: the loop runs, or with
\* range(num_bombs) empty set_tile_nums runs at once and the call returns
EnterScatter(ts, nb, avoid, op) ==
    IF nb > 0
    THEN /\ tiles' = ts
         /\ pc' = "scatter"
         /\ x' = nb
         /\ tile_to_avoid' = avoid
         /\ last' = Call(op, avoid, FALSE)
    ELSE /\ tiles' = set_tile_nums(ts)
         /\ pc' = "idle"
         /\ x' = 0
         /\ tile_to_avoid' = None
         /\ last' = Call("scatter_bombs", avoid, FALSE)

\* MineSweeper.setup
Setup(nrows, ncols, bombs, scatter_now) ==
    /\ pc = "idle"
    /\ rows' = nrows
    /\ columns' = ncols
    /\ num_bombs' = IF bombs > (nrows * ncols) - 1 THEN (nrows * ncols) - 1 ELSE bombs
    /\ unmarked_bombs' = bombs
    /\ time' = 0
    /\ IF scatter_now
       THEN /\ scatters' = 1
            /\ EnterScatter(NewTiles(nrows, ncols), num_bombs', None, "setup")
       ELSE /\ scatters' = 0
            /\ tiles' = NewTiles(nrows, ncols)
            /\ last' = Call("setup", None, FALSE)
            /\ UNCHANGED <<pc, x, tile_to_avoid>>
    /\ UNCHANGED clickvars
    /\ UNCHANGED uivars

\* (variant) a reset that leaves the bombs where they are
reset_tiles_keeps_bombs(ts) ==
    [k \in DOMAIN ts |->
        reset_mark([ts[k] EXCEPT !.is_clicked = FALSE, !.number = 0])]

\* the for loop of MineSweeper.reset
reset_tiles(ts) ==
    [k \in DOMAIN ts |->
        reset_mark([ts[k] EXCEPT !.is_clicked = FALSE,
                                 !.number = 0,
                                 !.is_safe = TRUE])]

\* MineSweeper.reset
Reset(scatter_now) ==
    /\ pc = "idle"
    /\ time' = 0
    /\ unmarked_bombs' = num_bombs
    /\ LET ts == reset_tiles(tiles)
       IN IF scatter_now
          THEN /\ scatters' = 1
               /\ EnterScatter(ts, num_bombs, None, "reset")
          ELSE /\ scatters' = 0
               /\ tiles' = ts
               /\ last' = Call("reset", None, FALSE)
               /\ UNCHANGED <<pc, x, tile_to_avoid>>
    /\ UNCHANGED <<rows, columns, num_bombs>>
    /\ UNCHANGED clickvars
    /\ UNCHANGED uivars

\* MineSweeper.scatter_bombs called by the user of the engine
ScatterBombs(avoid) ==
    /\ pc = "idle"
    /\ scatters < MaxScatters
    /\ scatters' = scatters + 1
    /\ EnterScatter(tiles, num_bombs, avoid, "scatter_bombs")
    /\ UNCHANGED <<rows, columns, num_bombs, time, unmarked_bombs>>
    /\ UNCHANGED clickvars
    /\ UNCHANGED uivars

\* (variant) the while condition without the test against tile_to_avoid
rejected_only_bombs(ts, rand_tile, avoid) == ~ts[rand_tile].is_safe

\* the while condition of scatter_bombs: the tile drawn is drawn again
rejected(ts, rand_tile, avoid) == ~ts[rand_tile].is_safe \/ rand_tile = avoid

\* one draw of random.choice in scatter_bombs: a rejected tile is drawn again,
\* an accepted one becomes a bomb; after the last one set_tile_nums runs
ScatterDraw(rand_tile) ==
    /\ pc = "scatter"
    /\ IF rejected(tiles, rand_tile, tile_to_avoid)
       THEN UNCHANGED <<tiles, pc, x, tile_to_avoid, last>>
       ELSE LET ts == [tiles EXCEPT ![rand_tile].is_safe = FALSE] IN
            IF x > 1
            THEN /\ tiles' = ts
                 /\ x' = x - 1
                 /\ UNCHANGED <<pc, tile_to_avoid, last>>
            ELSE /\ tiles' = set_tile_nums(ts)
                 /\ x' = 0
                 /\ pc' = "idle"
                 /\ tile_to_avoid' = None
                 /\ last' = Call("scatter_bombs", tile_to_avoid, FALSE)
    /\ UNCHANGED <<rows, columns, num_bombs, time, unmarked_bombs, scatters>>
    /\ UNCHANGED clickvars
    /\ UNCHANGED uivars

\* MineSweeper.click_tile
ClickTile(k) ==
    /\ pc = "idle"
    /\ LET r == click_tile(tiles, k) IN
       /\ tiles' = r.tiles
       /\ last' = [Call("click_tile", k, r.ret) EXCEPT
                       !.n = Cardinality(Clicked(r.tiles) \ Clicked(tiles)),
                       !.avoided = (last.op = "scatter_bombs" /\ last.tile = k)]
    /\ UNCHANGED <<rows, columns, num_bombs, time, unmarked_bombs, pc, x,
                   tile_to_avoid, scatters>>
    /\ UNCHANGED clickvars
    /\ UNCHANGED uivars

\* the tiles that carry a mark
Marked(ts) == {k \in DOMAIN ts : ts[k].mark # "none"}

\* MineSweeper.mark_tile on the tiles ts with unmarked_bombs = u: the tiles and
\* unmarked_bombs afterwards
mark_tile(ts, u, k) ==
    IF ~ts[k].is_clicked
    THEN LET u1 == IF ts[k].mark = "flag" THEN u + 1 ELSE u
             t1 == change_mark(ts[k])
         IN  [tiles |-> [ts EXCEPT ![k] = t1],
              unmarked_bombs |-> IF t1.mark = "flag" THEN u1 - 1 ELSE u1]
    ELSE [tiles |-> ts, unmarked_bombs |-> u]

\* MineSweeper.mark_tile called by the user of the engine
MarkTile(k) ==
    /\ pc = "idle"
    /\ LET r == mark_tile(tiles, unmarked_bombs, k) IN
       /\ tiles' = r.tiles
       /\ unmarked_bombs' = r.unmarked_bombs
    /\ Cardinality(Marked(tiles')) <= MaxMarked
    /\ last' = Call("mark_tile", None, FALSE)
    /\ UNCHANGED <<rows, columns, num_bombs, time, pc, x, tile_to_avoid, scatters>>
    /\ UNCHANGED clickvars
    /\ UNCHANGED uivars

\* MineSweeper.click_all_bombs
ClickAllBombs ==
    /\ pc = "idle"
    /\ tiles' = click_bombs_from(tiles, KeyOrder(rows, columns), 1)
    /\ last' = [Call("click_all_bombs", None, FALSE) EXCEPT
                    !.n = Cardinality(Clicked(tiles') \ Clicked(tiles))]
    /\ UNCHANGED <<rows, columns, num_bombs, time, unmarked_bombs, pc, x,
                   tile_to_avoid, scatters>>
    /\ UNCHANGED clickvars
    /\ UNCHANGED uivars

\* MineSweeper.tick; last.n counts the tick calls in a row
Tick ==
    /\ pc = "idle"
    /\ time' = IF time < TimeCeiling THEN time + 1 ELSE time
    /\ last' = [Call("tick", None, FALSE) EXCEPT
                    !.n = IF last.op = "tick" THEN last.n + 1 ELSE 1]
    /\ UNCHANGED <<rows, columns, tiles, num_bombs, unmarked_bombs, pc, x,
                   tile_to_avoid, scatters>>
    /\ UNCHANGED clickvars
    /\ UNCHANGED uivars

\* MineSweeper.game_is_won called by the user of the engine
GameIsWon ==
    /\ pc = "idle"
    /\ last' = Call("game_is_won", None, game_is_won)
    /\ UNCHANGED <<rows, columns, tiles, num_bombs, time, unmarked_bombs, pc, x,
                   tile_to_avoid, scatters>>
    /\ UNCHANGED clickvars
    /\ UNCHANGED uivars

\* MineSweeper.game_is_lost called by the user of the engine
GameIsLost ==
    /\ pc = "idle"
    /\ last' = Call("game_is_lost", None, game_is_lost)
    /\ UNCHANGED <<rows, columns, tiles, num_bombs, time, unmarked_bombs, pc, x,
                   tile_to_avoid, scatters>>
    /\ UNCHANGED clickvars
    /\ UNCHANGED uivars

\* MineSweeper.game_is_over called by the user of the engine
GameIsOver ==
    /\ pc = "idle"
    /\ last' = Call("game_is_over", None, game_is_over)
    /\ UNCHANGED <<rows, columns, tiles, num_bombs, time, unmarked_bombs, pc, x,
                   tile_to_avoid, scatters>>
    /\ UNCHANGED clickvars
    /\ UNCHANGED uivars

\* the list the for loop of click_tile runs over, made before its first round
unclicked_adjacent(ts, k) ==
    SelectSeq(get_adjacent_tiles(ts, k), LAMBDA a : ~ts[a].is_clicked)

\* a click_tile call that has come to its for loop
Frame(ts, k) == [tile |-> k, adjacent |-> unclicked_adjacent(ts, k), i |-> 1]

\* click_tile called by the user of the engine, followed step by step: the
\* call runs up to its for loop, or returns False when it does not come to it
ClickCall(k) ==
    /\ pc = "idle"
    /\ calls' = 1
    /\ IF clickable(tiles[k])
       THEN /\ tiles' = [tiles EXCEPT ![k].is_clicked = TRUE]
            /\ IF cascades(tiles'[k])
               THEN /\ stack' = <<Frame(tiles', k)>>
                    /\ entry' = tiles
                    /\ pc' = "click"
                    /\ last' = Call("click_tile", k, FALSE)
               ELSE /\ last' = [Call("click_tile", k, FALSE) EXCEPT !.n = 1]
                    /\ UNCHANGED <<stack, entry, pc>>
       ELSE /\ last' = Call("click_tile", k, FALSE)
            /\ UNCHANGED <<tiles, stack, entry, pc>>
    /\ UNCHANGED <<rows, columns, num_bombs, time, unmarked_bombs, x,
                   tile_to_avoid, scatters>>
    /\ UNCHANGED uivars

\* one round of the for loop of the innermost running click_tile: it calls
\* click_tile on the next tile of its list, and that call runs up to its own
\* for loop, or returns False
ClickRecurse ==
    /\ pc = "click"
    /\ LET f == stack[Len(stack)] IN
       /\ f.i <= Len(f.adjacent)
       /\ LET k == f.adjacent[f.i]
              caller == [stack EXCEPT ![Len(stack)].i = f.i + 1]
          IN  /\ calls' = calls + 1
              /\ IF clickable(tiles[k])
                 THEN /\ tiles' = [tiles EXCEPT ![k].is_clicked = TRUE]
                      /\ stack' = IF cascades(tiles'[k])
                                  THEN Append(caller, Frame(tiles', k))
                                  ELSE caller
                 ELSE /\ stack' = caller
                      /\ UNCHANGED tiles
    /\ UNCHANGED <<rows, columns, num_bombs, time, unmarked_bombs, pc, x,
                   tile_to_avoid, scatters, last, entry>>
    /\ UNCHANGED uivars

\* the for loop of the innermost running click_tile is over: it returns True,
\* to its caller or, the outermost one, to the user of the engine
ClickReturn ==
    /\ pc = "click"
    /\ LET f == stack[Len(stack)] IN f.i > Len(f.adjacent)
    /\ stack' = SubSeq(stack, 1, Len(stack) - 1)
    /\ IF Len(stack) = 1
       THEN /\ pc' = "idle"
            /\ entry' = <<>>
            /\ last' = [last EXCEPT !.ret = TRUE,
                           !.n = Cardinality(Clicked(tiles) \ Clicked(entry))]
       ELSE UNCHANGED <<pc, entry, last>>
    /\ UNCHANGED <<rows, columns, tiles, num_bombs, time, unmarked_bombs, x,
                   tile_to_avoid, scatters, calls>>
    /\ UNCHANGED uivars

\* the boards (rows, columns) and the bomb counts setup is called with
Boards == {<<1, 1>>, <<1, 2>>, <<2, 1>>, <<1, 3>>, <<3, 1>>}
BombInputs == (-1)..MaxBombs

\* The engine driven by any sequence of calls.
Next ==
    \/ \E d \in Boards, b \in BombInputs, s \in BOOLEAN : Setup(d[1], d[2], b, s)
    \/ \E s \in BOOLEAN : Reset(s)
    \/ \E a \in DOMAIN tiles \cup {None} : ScatterBombs(a)
    \/ \E k \in DOMAIN tiles : ScatterDraw(k)
    \/ \E k \in DOMAIN tiles : ClickTile(k)
    \/ \E k \in DOMAIN tiles : MarkTile(k)
    \/ ClickAllBombs
    \/ time < MaxTicks /\ Tick
    \/ GameIsWon
    \/ GameIsLost
    \/ GameIsOver

Spec == Init /\ [][Next]_vars

\* One game on a two-dimensional board: setup, one scatter_bombs, then reveals,
\* with marks at any time.
CascadeBoards == {<<2, 3>>}
CascadeBombs == {0, 1, 2}

NextCascade ==
    \/ rows = 0 /\ \E d \in CascadeBoards, b \in CascadeBombs : Setup(d[1], d[2], b, FALSE)
    \/ scatters = 0 /\ \E a \in DOMAIN tiles \cup {None} : ScatterBombs(a)
    \/ \E k \in DOMAIN tiles : ScatterDraw(k)
    \/ scatters = 1 /\ \E k \in DOMAIN tiles : ClickTile(k)
    \/ \E k \in DOMAIN tiles : MarkTile(k)

SpecCascade == Init /\ [][NextCascade]_vars

\* One board of any shape up to four rows and four columns, set up, then
\* marked and reset.
GeoBoards == {<<r, c>> : r \in 1..4, c \in 1..4}

NextBoards ==
    \/ rows = 0 /\ \E d \in GeoBoards, b \in BombInputs : Setup(d[1], d[2], b, FALSE)
    \/ Reset(FALSE)
    \/ \E k \in DOMAIN tiles : MarkTile(k)

SpecBoards == Init /\ [][NextBoards]_vars

\* One board set up, then the clock run to its ceiling and beyond, with resets.
NextClock ==
    \/ rows = 0 /\ \E d \in Boards, b \in BombInputs : Setup(d[1], d[2], b, FALSE)
    \/ (last.op = "tick" => last.n < ClockTicks) /\ Tick
    \/ Reset(FALSE)

SpecClock == Init /\ [][NextClock]_vars

\* One board set up, then scatter_bombs called up to MaxScatters times.  In the
\* loop of a running scatter_bombs random.choice draws every tile again and
\* again, so a tile that would be accepted is drawn in the end.
ScatterBoards == Boards \cup {<<2, 2>>}
ScatterKeys == UNION {Keys(d[1], d[2]) : d \in ScatterBoards}

NextScatter ==
    \/ rows = 0 /\ \E d \in ScatterBoards, b \in BombInputs, s \in BOOLEAN :
                      Setup(d[1], d[2], b, s)
    \/ \E a \in DOMAIN tiles \cup {None} : ScatterBombs(a)
    \/ \E k \in DOMAIN tiles : ScatterDraw(k)

SpecScatter == Init /\ [][NextScatter]_vars

FairSpecScatter ==
    SpecScatter /\ \A k \in ScatterKeys : WF_vars(k \in DOMAIN tiles /\ ScatterDraw(k))

\* One game on a board set up for as many bombs as it has tiles, or one more:
\* setup, one scatter_bombs, then reveals and game_is_won.
CrowdedBoards == {<<1, 1>>, <<1, 3>>, <<2, 2>>, <<3, 3>>}

NextCrowded ==
    \/ rows = 0 /\ \E d \in CrowdedBoards, e \in {0, 1}, s \in BOOLEAN :
                      Setup(d[1], d[2], (d[1] * d[2]) + e, s)
    \/ scatters = 0 /\ \E a \in DOMAIN tiles \cup {None} : ScatterBombs(a)
    \/ \E k \in DOMAIN tiles : ScatterDraw(k)
    \/ scatters = 1 /\ \E k \in DOMAIN tiles : ClickTile(k)
    \/ GameIsWon

SpecCrowded == Init /\ [][NextCrowded]_vars

\* One game on a board set up without bombs and never marked: setup, any
\* scatter_bombs, reveals and the queries.
EmptyBoards ==
    {<<1, 1>>, <<1, 5>>, <<5, 1>>, <<2, 2>>, <<2, 3>>, <<3, 2>>, <<3, 3>>}

NextEmpty ==
    \/ rows = 0 /\ \E d \in EmptyBoards, s \in BOOLEAN : Setup(d[1], d[2], 0, s)
    \/ \E a \in DOMAIN tiles \cup {None} : ScatterBombs(a)
    \/ \E k \in DOMAIN tiles : ClickTile(k)
    \/ GameIsWon
    \/ GameIsLost

SpecEmpty == Init /\ [][NextEmpty]_vars

\* One game as above with click_tile followed step by step.  A call that has
\* begun goes on until it returns: the engine runs in one thread and
\* click_tile waits for nothing.
ClickBoards == {<<2, 2>>, <<2, 3>>}
ClickBombs == {0, 1}

NextClick ==
    \/ rows = 0 /\ \E d \in ClickBoards, b \in ClickBombs : Setup(d[1], d[2], b, FALSE)
    \/ scatters = 0 /\ \E a \in DOMAIN tiles \cup {None} : ScatterBombs(a)
    \/ \E k \in DOMAIN tiles : ScatterDraw(k)
    \/ scatters = 1 /\ \E k \in DOMAIN tiles : ClickCall(k)
    \/ ClickRecurse
    \/ ClickReturn
    \/ \E k \in DOMAIN tiles : MarkTile(k)

SpecClick == Init /\ [][NextClick]_vars

FairSpecClick == SpecClick /\ WF_vars(ClickRecurse) /\ WF_vars(ClickReturn)

-----------------------------------------------------------------------------
(* main.py: MinesweeperApp, the Tk front end of the engine.  Tk runs every  *)
(* handler to its end before the next event or timer callback is taken, so  *)
(* a handler is one step.                                                   *)

\* at most MaxPending callbacks of tick are scheduled at a time
MaxPending == 2

\* MinesweeperApp.difficulty_levels, with boards of a size that can be
\* explored in place of 9x9/10, 16x16/40, 16x30/99 and the custom 10x10/10
difficulty_levels ==
    [beginner     |-> [rows |-> 2, columns |-> 2, bombs |-> 1],
     intermediate |-> [rows |-> 1, columns |-> 4, bombs |-> 1],
     expert       |-> [rows |-> 1, columns |-> 3, bombs |-> 1],
     custom       |-> [rows |-> 1, columns |-> 2, bombs |-> 0]]

\* the key f'tile_{tile.number}' of MinesweeperApp.images
NumberImages ==
    <<"tile_1", "tile_2", "tile_3", "tile_4", "tile_5", "tile_6", "tile_7", "tile_8">>
tile_number_image(number) == IF number = 0 THEN "tile_0" ELSE NumberImages[number]

\* the key f'tile_{tile.mark}' of MinesweeperApp.images
tile_mark_image(mark) ==
    CASE mark = "none" -> "tile_none"
      [] mark = "flag" -> "tile_flag"
      [] mark = "question" -> "tile_question"

\* MineSweeper.game_is_won on the tiles ts
game_is_won_on(ts) == \A k \in DOMAIN ts : ~(ts[k].is_safe /\ ~ts[k].is_clicked)

\* MineSweeper.game_is_lost on the tiles ts
game_is_lost_on(ts) == \E k \in DOMAIN ts : ~ts[k].is_safe /\ ts[k].is_clicked

\* MineSweeper.scatter_bombs(tile_to_avoid=avoid) on the tiles ts, run to its
\* end: the nb draws it accepted are the set S
scatter_bombs(ts, S) ==
    set_tile_nums([k \in DOMAIN ts |->
                      IF k \in S THEN [ts[k] EXCEPT !.is_safe = FALSE] ELSE ts[k]])

\* the sets of tiles nb rounds of the for loop of scatter_bombs can accept; it
\* is empty when the while loop of some round cannot end
Scatterings(ts, nb, avoid) ==
    {S \in SUBSET {k \in DOMAIN ts : ~rejected(ts, k, avoid)} :
        Cardinality(S) = IF nb > 0 THEN nb ELSE 0}

\* MinesweeperApp.create_buttons
create_buttons(ts) ==
    [k \in DOMAIN ts |-> [image |-> tile_mark_image(ts[k].mark), is_disabled |-> FALSE]]

\* MinesweeperApp.auto_click_buttons on the buttons bs
auto_click_buttons(bs, ts, red, all_bombs) ==
    [k \in DOMAIN bs |->
        IF \/ ts[k].is_clicked
           \/ (~ts[k].is_safe /\ all_bombs)
           \/ (ts[k].mark = "flag" /\ all_bombs)
        THEN [image |-> IF ts[k].is_safe
                        THEN IF all_bombs /\ ts[k].mark = "flag"
                             THEN "tile_x"
                             ELSE tile_number_image(ts[k].number)
                        ELSE IF k = red THEN "tile_red" ELSE "tile_bomb",
              is_disabled |-> TRUE]
        ELSE bs[k]]

\* MinesweeperApp.mark_button on the button of tile k
mark_button(ts, u, bs, k, q_marks_are_on) ==
    LET r1 == mark_tile(ts, u, k)
        r2 == IF r1.tiles[k].mark = "question" /\ ~q_marks_are_on
              THEN mark_tile(r1.tiles, r1.unmarked_bombs, k)
              ELSE r1
    IN  [tiles |-> r2.tiles,
         unmarked_bombs |-> r2.unmarked_bombs,
         buttons |-> [bs EXCEPT ![k] =
                         [image |-> tile_mark_image(r2.tiles[k].mark),
                          is_disabled |-> r2.tiles[k].mark = "flag"]]]

\* the for loop of MinesweeperApp.toggle_q_marks from position i of the buttons
RECURSIVE toggle_from(_, _, _, _)
toggle_from(st, order, i, q_marks_are_on) ==
    IF i > Len(order)
    THEN st
    ELSE toggle_from(IF st.tiles[order[i]].mark = "question"
                     THEN mark_button(st.tiles, st.unmarked_bombs, st.buttons,
                                      order[i], q_marks_are_on)
                     ELSE st,
                     order, i + 1, q_marks_are_on)

\* (variant) freeze that leaves first_btn_clicked as it is
freeze_keeps_clock(first) == [is_frozen |-> TRUE, first_btn_clicked |-> first]

\* (variant) freeze that stops the clock and leaves the game unfrozen
freeze_clock_only(first) == [is_frozen |-> FALSE, first_btn_clicked |-> FALSE]

\* MinesweeperApp.freeze
freeze(first) == [is_frozen |-> TRUE, first_btn_clicked |-> FALSE]

\* MinesweeperApp.click_button on the button of tile k, up to the look at the
\* best times: the tiles and buttons afterwards, whether freeze was called and
\* whether the game is won
click_button(ts, bs, k) ==
    LET r == click_tile(ts, k)
        b1 == [bs EXCEPT ![k].is_disabled = TRUE]
    IN  IF game_is_won_on(r.tiles)
        THEN [tiles |-> r.tiles, buttons |-> b1, frozen |-> TRUE, won |-> TRUE]
        ELSE IF ~r.tiles[k].is_safe
        THEN LET t2 == click_bombs_from(r.tiles, KeyOrder(rows, columns), 1) IN
             [tiles |-> t2,
              buttons |-> auto_click_buttons(b1, t2, k, TRUE),
              frozen |-> TRUE, won |-> FALSE]
        ELSE IF r.ret
        THEN [tiles |-> r.tiles,
              buttons |-> auto_click_buttons(b1, r.tiles, None, FALSE),
              frozen |-> FALSE, won |-> FALSE]
        ELSE [tiles |-> r.tiles,
              buttons |-> [b1 EXCEPT ![k].image = tile_number_image(r.tiles[k].number)],
              frozen |-> FALSE, won |-> FALSE]

\* a handler of MinesweeperApp has run; which one is not recorded
Handled == Call("event", None, FALSE)

\* a handler of MinesweeperApp has raised the exception exc; Tk reports it
\* and goes on with the next event
Raised(exc) == Call(exc, None, FALSE)

\* the names typed into the dialog of ask_fastest_name
Names == {"Anonymous", "Ada"}

\* the test of click_button for a best time
is_fastest(t, stored) == t < stored

\* the end of the win branch of click_button at the level lvl with game.time
\* = t: the best times afterwards, for every name that can be entered; none
\* when the level has no entry and the look-up raises KeyError
BestTimesAfterWin(bt, lvl, t) ==
    IF lvl \notin DOMAIN bt
    THEN {}
    ELSE IF is_fastest(t, bt[lvl].time)
    THEN {[bt EXCEPT ![lvl] = BestTime(t, name)] : name \in Names}
    ELSE {bt}

\* MinesweeperApp.change_difficulty but for the checkboxes of the menu
SetDifficulty(difficulty) ==
    LET level == difficulty_levels[difficulty] IN
    /\ pc = "idle"
    /\ current_difficulty_level' = difficulty
    /\ is_frozen' = FALSE
    /\ first_btn_clicked' = FALSE
    /\ rows' = level.rows
    /\ columns' = level.columns
    /\ num_bombs' = IF level.bombs > (level.rows * level.columns) - 1
                    THEN (level.rows * level.columns) - 1
                    ELSE level.bombs
    /\ unmarked_bombs' = level.bombs
    /\ tiles' = NewTiles(level.rows, level.columns)
    /\ time' = 0
    /\ scatters' = 0
    /\ buttons' = create_buttons(tiles')
    /\ last' = Handled
    /\ UNCHANGED <<pc, x, tile_to_avoid, after, best_times,
                   dialog_values>>
    /\ UNCHANGED clickvars

\* the end of MinesweeperApp.__init__: the '?' marks option is as stored in
\* the settings and start_game calls change_difficulty with the stored level
StartGame(level, m) ==
    /\ current_difficulty_level = "none"
    /\ marks' = m
    /\ SetDifficulty(level)

\* MinesweeperApp.change_difficulty, chosen in the menu
ChangeDifficulty(difficulty) ==
    /\ current_difficulty_level # "none"
    /\ UNCHANGED marks
    /\ SetDifficulty(difficulty)

\* MinesweeperApp.reset_game: F2, 'New' in the menu, or the face button
ResetGame ==
    /\ pc = "idle"
    /\ current_difficulty_level # "none"
    /\ first_btn_clicked' = FALSE
    /\ is_frozen' = FALSE
    /\ time' = 0
    /\ unmarked_bombs' = num_bombs
    /\ tiles' = reset_tiles(tiles)
    /\ scatters' = 0
    /\ buttons' = [k \in DOMAIN buttons |-> [image |-> "tile_up", is_disabled |-> FALSE]]
    /\ last' = Handled
    /\ UNCHANGED <<rows, columns, num_bombs, pc, x, tile_to_avoid, after, marks,
                   current_difficulty_level, best_times,
                   dialog_values>>
    /\ UNCHANGED clickvars

\* a callback of MinesweeperApp.tick fires
TimerFires ==
    /\ pc = "idle"
    /\ after > 0
    /\ IF first_btn_clicked
       THEN /\ time' = IF time < TimeCeiling THEN time + 1 ELSE time
            /\ after' = (after - 1) + 1
       ELSE /\ after' = after - 1
            /\ UNCHANGED time
    /\ last' = Handled
    /\ UNCHANGED <<rows, columns, tiles, num_bombs, unmarked_bombs, pc, x,
                   tile_to_avoid, scatters, is_frozen, first_btn_clicked, buttons,
                   marks, current_difficulty_level, best_times,
                   dialog_values>>
    /\ UNCHANGED clickvars

\* MinesweeperApp.button_l_hold on the button of tile k, neither frozen nor
\* disabled
button_l_hold(bs, ts, k) ==
    [bs EXCEPT ![k].image = IF ts[k].mark = "question" THEN "tile_question_down"
                                                       ELSE "tile_down"]

\* The left mouse button pressed and released on the button of tile k, where
\* that does something: MinesweeperApp.button_l_hold, then
\* MinesweeperApp.button_l_release with the pointer inside the button or not.
\* Tk hands the release to the button that got the press.
ButtonLClick(k, inside) ==
    /\ pc = "idle"
    /\ ~is_frozen /\ ~buttons[k].is_disabled
    /\ LET held == button_l_hold(buttons, tiles, k) IN
       IF inside
       THEN /\ tiles[k].mark # "flag"
            /\ \E S \in IF first_btn_clicked
                        THEN {{}}
                        ELSE Scatterings(tiles, num_bombs, k) :
                  LET ts == IF first_btn_clicked THEN tiles ELSE scatter_bombs(tiles, S)
                      r == click_button(ts, held, k)
                      f == IF r.frozen
                           THEN freeze(TRUE)
                           ELSE [is_frozen |-> is_frozen, first_btn_clicked |-> TRUE]
                      bts == BestTimesAfterWin(best_times, current_difficulty_level,
                                               time)
                  IN  /\ tiles' = r.tiles
                      /\ buttons' = r.buttons
                      /\ is_frozen' = f.is_frozen
                      /\ first_btn_clicked' = f.first_btn_clicked
                      /\ IF r.won /\ bts = {}
                         THEN last' = Raised("KeyError") /\ UNCHANGED best_times
                         ELSE /\ last' = Handled
                              /\ best_times' \in IF r.won THEN bts ELSE {best_times}
            /\ IF first_btn_clicked
               THEN UNCHANGED <<after, scatters>>
               ELSE /\ after < MaxPending
                    /\ after' = after + 1
                    /\ scatters' = scatters + 1
       ELSE /\ buttons' = [held EXCEPT ![k].image = tile_mark_image(tiles[k].mark)]
            /\ last' = Handled
            /\ UNCHANGED <<tiles, is_frozen, first_btn_clicked, after, scatters,
                           best_times>>
    /\ UNCHANGED <<rows, columns, num_bombs, time, unmarked_bombs, pc, x,
                   tile_to_avoid, marks, current_difficulty_level,
                   dialog_values>>
    /\ UNCHANGED clickvars

\* MinesweeperApp.button_r_click on the button of tile k, where it does something
ButtonRClick(k) ==
    /\ pc = "idle"
    /\ ~is_frozen /\ ~tiles[k].is_clicked
    /\ LET r == mark_button(tiles, unmarked_bombs, buttons, k, marks) IN
       /\ tiles' = r.tiles
       /\ unmarked_bombs' = r.unmarked_bombs
       /\ buttons' = r.buttons
    /\ Cardinality(Marked(tiles')) <= MaxMarked
    /\ last' = Handled
    /\ UNCHANGED <<rows, columns, num_bombs, time, pc, x, tile_to_avoid, scatters,
                   is_frozen, first_btn_clicked, after, marks,
                   current_difficulty_level, best_times,
                   dialog_values>>
    /\ UNCHANGED clickvars

\* 'Marks (?)' chosen in the menu: the checkbox changes, then
\* MinesweeperApp.toggle_q_marks runs
ToggleQMarks ==
    /\ pc = "idle"
    /\ current_difficulty_level # "none"
    /\ marks' = ~marks
    /\ LET r == toggle_from([tiles |-> tiles, unmarked_bombs |-> unmarked_bombs,
                             buttons |-> buttons],
                            KeyOrder(rows, columns), 1, marks')
       IN /\ tiles' = r.tiles
          /\ unmarked_bombs' = r.unmarked_bombs
          /\ buttons' = r.buttons
    /\ last' = Handled
    /\ UNCHANGED <<rows, columns, num_bombs, time, pc, x, tile_to_avoid, scatters,
                   is_frozen, first_btn_clicked, after, current_difficulty_level,
                   best_times,
                   dialog_values>>
    /\ UNCHANGED clickvars

\* MinesweeperApp.toggle_colour as far as the tile buttons go: create_ui makes
\* them anew and shows the revealed ones
ToggleColour ==
    /\ pc = "idle"
    /\ current_difficulty_level # "none"
    /\ buttons' = auto_click_buttons(create_buttons(tiles), tiles, None,
                                     game_is_lost_on(tiles))
    /\ last' = Handled
    /\ UNCHANGED <<rows, columns, tiles, num_bombs, time, unmarked_bombs, pc, x,
                   tile_to_avoid, scatters, is_frozen, first_btn_clicked, after,
                   marks, current_difficulty_level, best_times,
                   dialog_values>>
    /\ UNCHANGED clickvars

\* MinesweeperApp.show_best_times with 'reset' pressed in the dialog
ShowBestTimes ==
    /\ pc = "idle"
    /\ current_difficulty_level # "none"
    /\ best_times' = [l \in TimedLevels |-> BestTime(TimeCeiling, "Anonymous")]
    /\ last' = Handled
    /\ UNCHANGED <<rows, columns, tiles, num_bombs, time, unmarked_bombs, pc, x,
                   tile_to_avoid, scatters, is_frozen, first_btn_clicked, after,
                   buttons, marks, current_difficulty_level, dialog_values>>
    /\ UNCHANGED clickvars

\* what is typed into an entry of the custom dialog: text int() turns into
\* the integer n, or text on which int() raises ValueError
Typed(n) == [numeric |-> TRUE, n |-> n]
Text == [numeric |-> FALSE, n |-> 0]

\* CustomDialog.validate for the three entries: self.height, self.width and
\* self.mines afterwards.  int() raises ValueError on the first entry that is
\* not a number; the entries before it are integers by then, it and the ones
\* after it are still strings.
validate(height, width, mines) ==
    IF height.numeric /\ width.numeric /\ mines.numeric
    THEN LET max_mines == (height.n - 1) * (width.n - 1) IN
         [height |-> IF height.n > 24 THEN 24
                     ELSE IF height.n < 9 THEN 9 ELSE height.n,
          width  |-> IF width.n > 30 THEN 30
                     ELSE IF width.n < 9 THEN 9 ELSE width.n,
          mines  |-> IF mines.n > max_mines THEN max_mines
                     ELSE IF mines.n < 10 THEN 10 ELSE mines.n]
    ELSE [height |-> IF height.numeric THEN height.n ELSE 9,
          width  |-> IF height.numeric /\ width.numeric THEN width.n ELSE 9,
          mines  |-> 10]

\* CustomDialog.apply
apply(height, width, mines) ==
    LET v == validate(height, width, mines) IN
    [rows |-> v.height, columns |-> v.width, bombs |-> v.mines]

\* dialogs.ask_custom_difficulty: the three entries are typed and OK is pressed
AskCustomDifficulty(height, width, mines) ==
    /\ pc = "idle"
    /\ current_difficulty_level # "none"
    /\ dialog_values' = apply(height, width, mines)
    /\ last' = Handled
    /\ UNCHANGED <<rows, columns, tiles, num_bombs, time, unmarked_bombs, pc, x,
                   tile_to_avoid, scatters, is_frozen, first_btn_clicked, after,
                   buttons, marks, current_difficulty_level, best_times>>
    /\ UNCHANGED clickvars

\* The application driven by the user and the timer.
Levels == {"beginner", "intermediate", "expert", "custom"}

NextApp ==
    \/ \E d \in Levels, m \in BOOLEAN : StartGame(d, m)
    \/ \E d \in Levels : ChangeDifficulty(d)
    \/ ResetGame
    \/ (first_btn_clicked => time < MaxTicks) /\ TimerFires
    \/ \E k \in DOMAIN tiles, inside \in BOOLEAN : ButtonLClick(k, inside)
    \/ \E k \in DOMAIN tiles : ButtonRClick(k)
    \/ ToggleQMarks
    \/ ToggleColour

SpecApp == Init /\ [][NextApp]_vars

\* Games played for the best times: the application starts with any best
\* times in the file; tiles are clicked, never marked.
StoredTimes == {0, 1, TimeCeiling}

InitTimes ==
    /\ rows = 0
    /\ columns = 0
    /\ tiles = <<>>
    /\ num_bombs = 0
    /\ time = 0
    /\ unmarked_bombs = 0
    /\ pc = "idle"
    /\ x = 0
    /\ tile_to_avoid = None
    /\ scatters = 0
    /\ last = NoCall
    /\ stack = <<>>
    /\ entry = <<>>
    /\ calls = 0
    /\ is_frozen = FALSE
    /\ first_btn_clicked = FALSE
    /\ after = 0
    /\ buttons = <<>>
    /\ marks = TRUE
    /\ current_difficulty_level = "none"
    /\ best_times \in [TimedLevels -> {BestTime(t, "Anonymous") : t \in StoredTimes}]
    /\ dialog_values = NoResult

NextTimes ==
    \/ \E d \in Levels : StartGame(d, TRUE)
    \/ \E d \in Levels : ChangeDifficulty(d)
    \/ ResetGame
    \/ (first_btn_clicked => time < MaxTicks) /\ TimerFires
    \/ \E k \in DOMAIN tiles : ButtonLClick(k, TRUE)
    \/ ShowBestTimes

SpecTimes == InitTimes /\ [][NextTimes]_vars

\* The custom dialog filled in again and again: numbers below, at and above
\* the limits of validate, and text that is no number.
HeightEntries == {Text} \cup {Typed(n) : n \in {-5, 0, 2, 8, 9, 10, 24, 25, 1000}}
WidthEntries == {Text} \cup {Typed(n) : n \in {-5, 0, 2, 8, 9, 10, 30, 31, 1000}}
MinesEntries == {Text} \cup {Typed(n) : n \in {-5, 0, 9, 10, 11, 64, 65, 667, 668, 5000}}

NextDialog ==
    \/ \E d \in Levels : StartGame(d, TRUE)
    \/ \E h \in HeightEntries, w \in WidthEntries, m \in MinesEntries :
          AskCustomDifficulty(h, w, m)

SpecDialog == Init /\ [][NextDialog]_vars

-----------------------------------------------------------------------------
(* Notions the claims are stated with *)

\* the step is a call click_tile(k): every call made when no scatter_bombs is
\* running records itself in last
ClickStep(k) == pc = "idle" /\ last'.op = "click_tile" /\ last'.tile = k

\* the tiles a step reveals
Revealed == Clicked(tiles') \ Clicked(tiles)

\* scatter_bombs has just returned
ScatterReturned == pc = "idle" /\ last.op = "scatter_bombs"

\* the number of bombs around tile k, by the geometry of the board
Adjacent(a, b) ==
    /\ a # b
    /\ a[1] - b[1] \in {-1, 0, 1}
    /\ a[2] - b[2] \in {-1, 0, 1}
BombsAround(ts, k) == Cardinality({b \in Bombs(ts) : Adjacent(k, b)})

-----------------------------------------------------------------------------
(* Claims checked under Spec *)

\* C1: when scatter_bombs(tile_to_avoid=t) is the first scatter_bombs since
\* setup or reset, t is not a bomb when it returns, and click_tile(t) as the
\* next call reveals no bomb, whatever tiles were drawn.
C1_AvoidedTileIsSafe ==
    [][(ScatterReturned /\ scatters = 1 /\ last.tile # None)
          => /\ tiles[last.tile].is_safe
             /\ ClickStep(last.tile) => Revealed \cap Bombs(tiles) = {}]_vars

\* C1 witness: scatter_bombs has filled every tile but the avoided one with a
\* bomb, and the click on the avoided tile that follows has revealed it.
C1_Witness ==
    /\ last.op = "click_tile" /\ last.avoided /\ last.n = 1
    /\ scatters = 1
    /\ Cardinality(DOMAIN tiles) = 3
    /\ Bombs(tiles) = DOMAIN tiles \ {last.tile}

\* C2: whenever scatter_bombs returns, exactly num_bombs tiles are bombs.
C2_ExactlyNumBombs == ScatterReturned => Cardinality(Bombs(tiles)) = num_bombs

\* C3: whenever scatter_bombs returns, the number of every tile is the number
\* of its neighbours that are bombs.
C3_NumbersAreBombCounts ==
    ScatterReturned => \A k \in DOMAIN tiles : tiles[k].number = BombsAround(tiles, k)

\* C8: click_tile on a tile that is clicked or marked 'flag' returns False and
\* changes no tile, nor unmarked_bombs, nor time.
C8_IgnoredClickChangesNothing ==
    [][\A k \in DOMAIN tiles :
          (ClickStep(k) /\ (tiles[k].is_clicked \/ tiles[k].mark = "flag"))
             => /\ last'.ret = FALSE
                /\ tiles' = tiles
                /\ unmarked_bombs' = unmarked_bombs
                /\ time' = time
                /\ <<rows, columns, num_bombs>>' = <<rows, columns, num_bombs>>]_vars

\* C8 witness: the last call was click_tile on a tile marked 'flag', which is
\* still not clicked, in a game whose time and unmarked_bombs have moved.
C8_Witness ==
    /\ last.op = "click_tile" /\ ~last.ret
    /\ tiles[last.tile].mark = "flag" /\ ~tiles[last.tile].is_clicked
    /\ Clicked(tiles) # {}
    /\ time > 0
    /\ unmarked_bombs # num_bombs

\* C9: click_tile returns True if and only if the call revealed more than one
\* tile.
C9_TrueIffSeveralRevealed ==
    last.op = "click_tile" => (last.ret <=> last.n > 1)

\* C10 as stated: click_tile on a tile neither clicked nor marked 'flag'
\* reveals it and returns True.
C10_Original ==
    [][\A k \in DOMAIN tiles :
          (ClickStep(k) /\ ~tiles[k].is_clicked /\ tiles[k].mark # "flag")
             => tiles'[k].is_clicked /\ last'.ret = TRUE]_vars

\* C10 amended: click_tile on a tile neither clicked nor marked 'flag' reveals
\* it, and returns True exactly when the tile is safe with number 0.
C10_RevealsAndReturnsCascade ==
    [][\A k \in DOMAIN tiles :
          (ClickStep(k) /\ ~tiles[k].is_clicked /\ tiles[k].mark # "flag")
             => /\ tiles'[k].is_clicked
                /\ last'.ret <=> (tiles[k].is_safe /\ tiles[k].number = 0)]_vars

\* C10 witness: the last call revealed exactly its own tile, a bomb with
\* number 0, and returned False.
C10_Witness ==
    /\ last.op = "click_tile" /\ last.n = 1 /\ ~last.ret
    /\ tiles[last.tile].is_clicked
    /\ ~tiles[last.tile].is_safe /\ tiles[last.tile].number = 0

-----------------------------------------------------------------------------
(* Claims checked under SpecCascade *)

\* every number is the number of bombs around its tile
CountsCorrect(ts) == \A k \in DOMAIN ts : ts[k].number = BombsAround(ts, k)

\* the tiles reachable from R by steps between adjacent tiles, inside S
RECURSIVE Closure(_, _)
Closure(R, S) ==
    LET R2 == R \cup {a \in S : \E z \in R : Adjacent(a, z)}
    IN  IF R2 = R THEN R ELSE Closure(R2, S)

\* R and the tiles adjacent to it
WithBorder(ts, R) == R \cup {a \in DOMAIN ts : \E z \in R : Adjacent(a, z)}

\* the safe tiles with number 0 that carry no flag
ZeroCells(ts) ==
    {c \in DOMAIN ts : ts[c].mark # "flag" /\ ts[c].is_safe /\ ts[c].number = 0}

C6_NoBombAutoRevealed ==
    [][\A k \in DOMAIN tiles :
          ClickStep(k) => (Revealed \cap Bombs(tiles)) \subseteq {k}]_vars

\* C6 witness: a single call has revealed every safe tile of a board with two
\* bombs, tiles next to the bombs included, and no bomb.
C6_Witness ==
    /\ last.op = "click_tile" /\ last.ret
    /\ Cardinality(Bombs(tiles)) = 2
    /\ Clicked(tiles) = DOMAIN tiles \ Bombs(tiles)
    /\ Cardinality(Clicked(tiles)) = last.n

\* the board with every 'question' mark taken off
Unquestioned(ts) ==
    [c \in DOMAIN ts |-> IF ts[c].mark = "question" THEN reset_mark(ts[c]) ELSE ts[c]]

\* C7: in a click_tile call a tile marked 'flag' stays as it is, and the call
\* reveals the same tiles and returns the same result as on the board with
\* the 'question' marks taken off.
C7_OnlyFlagBlocks ==
    [][\A k \in DOMAIN tiles :
          ClickStep(k)
             => /\ \A f \in DOMAIN tiles :
                      tiles[f].mark = "flag" => tiles'[f] = tiles[f]
                /\ \A c \in DOMAIN tiles : tiles'[c].mark = tiles[c].mark
                /\ LET r == click_tile(Unquestioned(tiles), k)
                   IN  /\ Clicked(tiles') = Clicked(r.tiles)
                       /\ last'.ret = r.ret]_vars

\* C7 witness: a single call revealed, beyond its own tile, a tile marked
\* 'question' with number 0 and a tile behind it, while a neighbour of its own
\* tile marked 'flag' stayed hidden.
C7_Witness ==
    /\ last.op = "click_tile" /\ last.ret
    /\ Cardinality(Clicked(tiles)) = last.n
    /\ \E q \in Clicked(tiles) \ {last.tile} :
          /\ tiles[q].mark = "question" /\ tiles[q].number = 0
          /\ \E c \in Clicked(tiles) : Adjacent(c, q) /\ ~Adjacent(c, last.tile)
                                        /\ c # last.tile
    /\ \E f \in DOMAIN tiles :
          /\ tiles[f].mark = "flag" /\ ~tiles[f].is_clicked
          /\ Adjacent(f, last.tile)

-----------------------------------------------------------------------------
(* Claims checked under FairSpecClick *)

\* the tiles whose click_tile call is inside its for loop
Expanding(st) == {st[j].tile : j \in 1..Len(st)}

\* C5: every click_tile call returns; while it runs no tile goes from clicked
\* to not clicked, a call comes to its for loop only for the tile it has just
\* revealed and no tile has two calls in their loops at once, so that the
\* nesting is at most the number of tiles and the number of calls at most one
\* more than eight per tile; what the finished call leaves and returns is
\* click_tile(entry, tile).
C5_ClickTileTerminates ==
    /\ (pc = "click") ~> (pc = "idle")
    /\ [][pc = "click" \/ pc' = "click"
             => /\ \A c \in DOMAIN tiles : tiles[c].is_clicked => tiles'[c].is_clicked
                /\ Len(stack') > Len(stack)
                      => LET k == stack'[Len(stack')].tile
                         IN  ~tiles[k].is_clicked /\ tiles'[k].is_clicked
                /\ (pc = "click" /\ pc' = "idle")
                      => LET r == click_tile(entry, last.tile)
                         IN  tiles' = r.tiles /\ last'.ret = r.ret]_vars
    /\ [](/\ Cardinality(Expanding(stack)) = Len(stack)
          /\ Len(stack) <= Cardinality(DOMAIN tiles)
          /\ calls <= 1 + 8 * Cardinality(DOMAIN tiles))

\* C5 witness: on a board without bombs, every number 0, one call has returned
\* after it revealed all four tiles of the 2 x 2 board, each tile adjacent to
\* every other, by seven calls.
C5_Witness ==
    /\ pc = "idle" /\ last.op = "click_tile" /\ last.ret
    /\ rows = 2 /\ columns = 2
    /\ Bombs(tiles) = {}
    /\ last.n = 4 /\ Clicked(tiles) = DOMAIN tiles
    /\ calls = 7

-----------------------------------------------------------------------------
(* Claims about the queries, checked under Spec *)

\* every tile that is not a bomb is clicked
AllSafeClicked(ts) == (DOMAIN ts \ Bombs(ts)) \subseteq Clicked(ts)

\* C11: game_is_won is true exactly when every tile that is not a bomb is
\* clicked, whatever bombs are clicked, and so is the value a game_is_won call
\* returns; when every such tile is clicked game_is_over is true.
C11_WonIffAllSafeClicked ==
    /\ game_is_won <=> AllSafeClicked(tiles)
    /\ last.op = "game_is_won" => (last.ret <=> AllSafeClicked(tiles))
    /\ AllSafeClicked(tiles) => game_is_over
    /\ (AllSafeClicked(tiles) /\ last.op = "game_is_over") => last.ret

\* C11 witness: game_is_won has returned True on a board with a clicked bomb,
\* a bomb that is not clicked and a tile that is not a bomb.
C11_Witness ==
    /\ last.op = "game_is_won" /\ last.ret
    /\ Bombs(tiles) \cap Clicked(tiles) # {}
    /\ Bombs(tiles) \ Clicked(tiles) # {}
    /\ DOMAIN tiles \ Bombs(tiles) # {}

\* the three queries
Queries == {"game_is_won", "game_is_lost", "game_is_over"}

\* C12: game_is_lost is true exactly when a bomb is clicked, game_is_over is
\* game_is_won or game_is_lost, the calls return these values, and a call of
\* one of the three changes nothing of the engine.
C12_LostIffBombClicked ==
    /\ [](game_is_lost <=> Bombs(tiles) \cap Clicked(tiles) # {})
    /\ [](game_is_over <=> (game_is_won \/ game_is_lost))
    /\ [](last.op = "game_is_lost"
             => (last.ret <=> Bombs(tiles) \cap Clicked(tiles) # {}))
    /\ [](last.op = "game_is_over"
             => (last.ret <=> (AllSafeClicked(tiles)
                                  \/ Bombs(tiles) \cap Clicked(tiles) # {})))
    /\ [][last'.op \in Queries
             => UNCHANGED <<rows, columns, tiles, num_bombs, time,
                            unmarked_bombs>>]_vars

\* C12 witness: game_is_over has returned True for a game that is lost and not
\* won, with a bomb that is not clicked.
C12_Witness ==
    /\ last.op = "game_is_over" /\ last.ret
    /\ game_is_lost /\ ~game_is_won
    /\ Bombs(tiles) \ Clicked(tiles) # {}

-----------------------------------------------------------------------------
(* Claims about setup, checked under Spec *)

\* C13: after setup with rows, columns > 0, num_bombs lies in
\* 0 .. rows * columns - 1 whatever number of bombs was asked for.
C13_BombCountInRange ==
    rows > 0 => num_bombs \in 0..((rows * columns) - 1)

\* C14: when setup has returned, unmarked_bombs equals num_bombs, time is 0,
\* and no tile is a bomb unless scatter_now was asked for (the last call is
\* setup only when it was not, or when the scattering is still running).
C14_SetupCounters ==
    (pc = "idle" /\ last.op = "setup")
        => /\ unmarked_bombs = num_bombs
           /\ time = 0
           /\ Bombs(tiles) = {}

\* a board of twelve rows, with row names of one and of two characters
NamedKeys == Keys(12, 4)

\* the step is a call of setup
SetupStep == \E d \in Boards, b \in BombInputs, s \in BOOLEAN : Setup(d[1], d[2], b, s)

\* C15: the board holds exactly rows * columns tiles, one for each pair of a
\* column and a row, under keys that differ from tile to tile (as they do on
\* a board with row names of two characters), and no call other than setup
\* changes rows, columns or the set of tiles.
C15_OneTilePerCoordinate ==
    /\ \A a, b \in NamedKeys : key_name(a) = key_name(b) => a = b
    /\ [](/\ DOMAIN tiles = {Key(c, r) : c \in 1..columns, r \in 1..rows}
          /\ Cardinality(DOMAIN tiles) = rows * columns
          /\ Cardinality({key_name(k) : k \in DOMAIN tiles}) = rows * columns)
    /\ [][(DOMAIN tiles' # DOMAIN tiles \/ rows' # rows \/ columns' # columns)
             => SetupStep]_vars

\* C15 witness: a board of three rows and one column, after bombs were
\* scattered, a tile was clicked, a tile was marked and the clock has ticked.
C15_Witness ==
    /\ rows = 3 /\ columns = 1
    /\ Bombs(tiles) # {}
    /\ Clicked(tiles) # {}
    /\ Marked(tiles) # {}
    /\ time > 0

-----------------------------------------------------------------------------
(* Claims about the neighbours, checked under SpecBoards *)

\* the coordinates in the eight compass directions of k that lie on the board
Compass(k) ==
    {<<c, r>> : c \in (k[1] - 1)..(k[1] + 1), r \in (k[2] - 1)..(k[2] + 1)}
        \cap ({<<c, r>> : c \in 1..columns, r \in 1..rows} \ {k})

\* k lies in the first or last column / row
OnColumnEdge(k) == k[1] \in {1, columns}
OnRowEdge(k) == k[2] \in {1, rows}

\* C16: the neighbours a tile was given at setup are, each once, the
\* coordinates in the eight compass directions that lie on the board; with at
\* least three rows and columns a corner has 3 of them, another edge tile 5,
\* an inner tile 8, and on a board of one row there are only left and right.
C16_NeighboursAreCompass ==
    \A k \in DOMAIN tiles :
        LET nb == tiles[k].neighbours IN
        /\ Range(nb) = Compass(k)
        /\ Len(nb) = Cardinality(Compass(k))
        /\ (rows >= 3 /\ columns >= 3)
              => Len(nb) = IF OnColumnEdge(k) /\ OnRowEdge(k) THEN 3
                           ELSE IF OnColumnEdge(k) \/ OnRowEdge(k) THEN 5
                           ELSE 8
        /\ rows = 1 => Range(nb) \subseteq {<<k[1] - 1, 1>>, <<k[1] + 1, 1>>}

\* C16 witness: a board of four rows and three columns whose tiles have 3, 5
\* and 8 neighbours, after tiles were marked.
C16_Witness ==
    /\ rows = 4 /\ columns = 3
    /\ last.op = "mark_tile"
    /\ Len(tiles[<<1, 1>>].neighbours) = 3
    /\ Len(tiles[<<1, 2>>].neighbours) = 5
    /\ Len(tiles[<<2, 3>>].neighbours) = 8

\* C17: a tile is among the neighbours of each of its neighbours, and no tile
\* is its own neighbour.
C17_NeighboursSymmetric ==
    \A a \in DOMAIN tiles :
        /\ a \notin Range(tiles[a].neighbours)
        /\ \A b \in Range(tiles[a].neighbours) :
              b \in DOMAIN tiles /\ a \in Range(tiles[b].neighbours)

\* C17 witness: on a board of two rows and four columns the tiles <<1, 1>> and
\* <<2, 2>>, diagonal to each other, are neighbours of each other, and
\* <<1, 1>> and <<3, 1>> are not.
C17_Witness ==
    /\ rows = 2 /\ columns = 4
    /\ <<2, 2>> \in Range(tiles[<<1, 1>>].neighbours)
    /\ <<1, 1>> \in Range(tiles[<<2, 2>>].neighbours)
    /\ <<3, 1>> \notin Range(tiles[<<1, 1>>].neighbours)
    /\ <<1, 1>> \notin Range(tiles[<<3, 1>>].neighbours)

-----------------------------------------------------------------------------
(* Claims about the marks, checked under Spec *)

\* the mark that follows m
NextMark(m) ==
    CASE m = "none" -> "flag"
      [] m = "flag" -> "question"
      [] m = "question" -> "none"

\* 1 for a mark that is 'flag', else 0
Flagged(m) == IF m = "flag" THEN 1 ELSE 0

\* the tiles marked 'flag'
Flags(ts) == {k \in DOMAIN ts : ts[k].mark = "flag"}

\* C18: mark_tile on a clicked tile changes nothing; on another tile it moves
\* the mark one step none -> flag -> question -> none and nothing else of the
\* tiles, takes 1 off unmarked_bombs when the new mark is 'flag', adds 1 when
\* the old one was, and leaves it as it is on question -> none.
C18_MarkCycles ==
    [][\A k \in DOMAIN tiles :
          MarkTile(k)
             => IF tiles[k].is_clicked
                THEN tiles' = tiles /\ unmarked_bombs' = unmarked_bombs
                ELSE /\ tiles'[k].mark = NextMark(tiles[k].mark)
                     /\ \A j \in DOMAIN tiles \ {k} : tiles'[j] = tiles[j]
                     /\ [tiles'[k] EXCEPT !.mark = "none", !.marks = InitMarks]
                          = [tiles[k] EXCEPT !.mark = "none", !.marks = InitMarks]
                     /\ unmarked_bombs' = unmarked_bombs
                                             + Flagged(tiles[k].mark)
                                             - Flagged(tiles'[k].mark)
                     /\ (tiles[k].mark = "question"
                            => unmarked_bombs' = unmarked_bombs)]_vars

\* C18 witness: mark_tile has returned on a board with a tile marked 'flag',
\* a tile marked 'question' and a clicked tile.
C18_Witness ==
    /\ last.op = "mark_tile"
    /\ \E f, q, c \in DOMAIN tiles :
          /\ tiles[f].mark = "flag"
          /\ tiles[q].mark = "question"
          /\ tiles[c].is_clicked /\ tiles[c].mark = "none"

\* C19: three mark_tile calls in a row on a tile that is not clicked leave its
\* mark, the tiles and unmarked_bombs as they were, and neither one call nor
\* two calls leave the mark as it was.
C19_ThreeMarksAreIdentity ==
    \A k \in DOMAIN tiles :
        ~tiles[k].is_clicked
           => LET r1 == mark_tile(tiles, unmarked_bombs, k)
                  r2 == mark_tile(r1.tiles, r1.unmarked_bombs, k)
                  r3 == mark_tile(r2.tiles, r2.unmarked_bombs, k)
              IN  /\ r3.tiles[k].mark = tiles[k].mark
                  /\ r3.tiles = tiles
                  /\ r3.unmarked_bombs = unmarked_bombs
                  /\ r1.tiles[k].mark # tiles[k].mark
                  /\ r2.tiles[k].mark # tiles[k].mark

\* C19 witness: mark_tile has returned on a board with three tiles that are
\* not clicked, marked 'none', 'flag' and 'question'.
C19_Witness ==
    /\ last.op = "mark_tile"
    /\ \E n, f, q \in DOMAIN tiles \ Clicked(tiles) :
          /\ tiles[n].mark = "none"
          /\ tiles[f].mark = "flag"
          /\ tiles[q].mark = "question"

\* C20: once a board is set up, unmarked_bombs is num_bombs less the number of
\* tiles marked 'flag'.
C20_CounterIsBombsLessFlags ==
    rows > 0 => unmarked_bombs = num_bombs - Cardinality(Flags(tiles))

-----------------------------------------------------------------------------
(* Claims about click_all_bombs, reset and tick, checked under Spec *)

\* C21: after click_all_bombs every bomb not marked 'flag' is clicked, no tile
\* that is not a bomb has changed, no mark has changed, and a second call
\* right after it would change nothing.
C21_AllBombsClicked ==
    [][(pc = "idle" /\ last'.op = "click_all_bombs")
          => /\ \A b \in Bombs(tiles') :
                   tiles'[b].mark # "flag" => tiles'[b].is_clicked
             /\ \A k \in DOMAIN tiles \ Bombs(tiles) : tiles'[k] = tiles[k]
             /\ \A k \in DOMAIN tiles :
                   /\ tiles'[k].mark = tiles[k].mark
                   /\ tiles[k].is_clicked => tiles'[k].is_clicked
             /\ Bombs(tiles') = Bombs(tiles)
             /\ click_bombs_from(tiles', KeyOrder(rows, columns), 1) = tiles']_vars

\* C21 witness: click_all_bombs has clicked a bomb and left a bomb marked
\* 'flag' and a tile that is not a bomb as they were, not clicked.
C21_Witness ==
    /\ last.op = "click_all_bombs" /\ last.n = 1
    /\ \E f \in Bombs(tiles) : tiles[f].mark = "flag" /\ ~tiles[f].is_clicked
    /\ \E k \in DOMAIN tiles \ Bombs(tiles) : ~tiles[k].is_clicked

\* C22: reset(scatter_now=False) leaves every tile not clicked, safe, with
\* number 0 and mark 'none', such that the next mark_tile marks it 'flag',
\* sets time to 0 and unmarked_bombs to num_bombs, and leaves rows, columns,
\* num_bombs, the set of tiles and the neighbours of every tile as they were.
C22_ResetRestores ==
    [][Reset(FALSE)
          => /\ \A k \in DOMAIN tiles' :
                   /\ ~tiles'[k].is_clicked
                   /\ tiles'[k].is_safe
                   /\ tiles'[k].number = 0
                   /\ tiles'[k].mark = "none"
                   /\ mark_tile(tiles', unmarked_bombs', k).tiles[k].mark = "flag"
                   /\ mark_tile(tiles', unmarked_bombs', k).unmarked_bombs
                         = num_bombs - 1
             /\ time' = 0
             /\ unmarked_bombs' = num_bombs
             /\ <<rows', columns', num_bombs'>> = <<rows, columns, num_bombs>>
             /\ DOMAIN tiles' = DOMAIN tiles
             /\ \A k \in DOMAIN tiles :
                   tiles'[k].neighbours = tiles[k].neighbours]_vars

\* C22 witness: reset has returned on a board of three tiles that was set up
\* for two bombs; the tiles are as new.
C22_Witness ==
    /\ pc = "idle" /\ last.op = "reset"
    /\ rows = 1 /\ columns = 3
    /\ num_bombs = 2 /\ unmarked_bombs = 2
    /\ time = 0
    /\ tiles = NewTiles(rows, columns)

-----------------------------------------------------------------------------
(* Claim about the clock, checked under SpecClock *)

\* C23: time is always in 0 .. 999; tick adds exactly 1 to it below 999 and
\* leaves it at 999, changes nothing else, and after 1000 or more tick calls
\* in a row time is 999.
C23_ClockStopsAt999 ==
    /\ [](time \in 0..999)
    /\ [][Tick => /\ time < 999 => time' = time + 1
                  /\ time = 999 => time' = 999
                  /\ UNCHANGED <<rows, columns, tiles, num_bombs,
                                 unmarked_bombs>>]_vars
    /\ []((last.op = "tick" /\ last.n >= 1000) => time = 999)

\* C23 witness: tick has been called 1001 times in a row and time is 999.
C23_Witness ==
    /\ last.op = "tick" /\ last.n = 1001
    /\ time = 999

-----------------------------------------------------------------------------
(* More claims checked under Spec *)

\* the step is a call of reset
ResetStep == \E s \in BOOLEAN : Reset(s)

\* C24: a clicked tile stays clicked through every step that is not a call of
\* reset or setup.
C24_ClickedStaysClicked ==
    [][(\E k \in DOMAIN tiles :
           tiles[k].is_clicked /\ (k \notin DOMAIN tiles' \/ ~tiles'[k].is_clicked))
          => (ResetStep \/ SetupStep)]_vars

\* C24 witness: scatter_bombs has returned on a board with a clicked tile and a
\* marked tile, after the clock has ticked.
C24_Witness ==
    /\ pc = "idle" /\ last.op = "scatter_bombs"
    /\ Clicked(tiles) # {}
    /\ Marked(tiles) # {}
    /\ time > 0

-----------------------------------------------------------------------------
(* Claim about the end of scatter_bombs, checked under FairSpecScatter *)

\* C25: every scatter_bombs call returns.
C25_ScatterTerminates == (pc = "scatter") ~> (pc = "idle")

-----------------------------------------------------------------------------
(* Claim about a board set up for too many bombs, checked under SpecCrowded *)

\* C26: setup was asked for at least rows * columns bombs (the number asked
\* for is what setup stores in unmarked_bombs).  After scatter_bombs all tiles
\* but one are bombs and the number of that tile is the number of its
\* neighbours (3 to 8 on a board of 3 x 3); click_tile on that tile makes
\* game_is_won true at once.
C26_OneSafeTileLeft ==
    /\ []((pc = "idle" /\ scatters = 1 /\ rows > 0
             /\ unmarked_bombs >= rows * columns)
            => /\ Cardinality(Bombs(tiles)) = (rows * columns) - 1
               /\ Cardinality(DOMAIN tiles \ Bombs(tiles)) = 1
               /\ \A k \in DOMAIN tiles \ Bombs(tiles) :
                     /\ tiles[k].number = Cardinality(Compass(k))
                     /\ (rows = 3 /\ columns = 3) => tiles[k].number \in 3..8)
    /\ [][\A k \in DOMAIN tiles :
             (ClickStep(k) /\ rows > 0 /\ unmarked_bombs >= rows * columns
                           /\ tiles[k].is_safe)
                => /\ tiles'[k].is_clicked
                   /\ AllSafeClicked(tiles')
                   /\ \A j \in DOMAIN tiles :
                         ~(tiles'[j].is_safe /\ ~tiles'[j].is_clicked)]_vars
    /\ []((last.op = "game_is_won" /\ DOMAIN tiles \ Bombs(tiles) # {}
             /\ (DOMAIN tiles \ Bombs(tiles)) \subseteq Clicked(tiles))
            => last.ret)

\* C26 witness: a board of 3 x 3 was set up for 9 bombs and got 8; the tile in
\* the middle is the safe one, with number 8; it alone is clicked and
\* game_is_won has returned True.
C26_Witness ==
    /\ rows = 3 /\ columns = 3
    /\ unmarked_bombs = 9 /\ num_bombs = 8
    /\ Bombs(tiles) = DOMAIN tiles \ {<<2, 2>>}
    /\ tiles[<<2, 2>>].number = 8
    /\ Clicked(tiles) = {<<2, 2>>}
    /\ last.op = "game_is_won" /\ last.ret

-----------------------------------------------------------------------------
(* Claim about a board without bombs, checked under SpecEmpty *)

-----------------------------------------------------------------------------
(* Claims about the application, checked under SpecApp *)

\* the step starts a new game: reset_game or change_difficulty
NewGameStep == ResetGame \/ \E d \in Levels : ChangeDifficulty(d)

\* the images f'tile_{tile.mark}' of the three marks
MarkImages == {tile_mark_image(InitMarks[i]) : i \in 1..Len(InitMarks)}

\* C28: at most one callback of MinesweeperApp.tick is pending at any moment,
\* whatever the order of first clicks, timer firings, resets, difficulty
\* changes and game ends, so that the time advances by at most 1 a second.
C28_OneTimerPending == after <= 1

\* C29: while the game is frozen, that is from the win or loss to the next
\* reset or difficulty change, no step changes game.time, the firing of a
\* timer callback scheduled before the freeze included.
C29_FrozenTimeStands ==
    [][is_frozen /\ time' # time => NewGameStep]_vars

\* C29 witness: a game that ran for a tick is over and frozen, and the
\* callback that was pending at the freeze has fired since.
C29_Witness ==
    /\ is_frozen
    /\ game_is_over
    /\ time > 0
    /\ after = 0

\* C30: from the moment a tile is revealed to the next reset or difficulty
\* change no step enables its button again or gives the button the image of
\* a mark.
C30_RevealedButtonStays ==
    [][\/ NewGameStep
       \/ \A k \in DOMAIN tiles :
             tiles[k].is_clicked
                => /\ buttons[k].is_disabled => buttons'[k].is_disabled
                   /\ buttons'[k].image \in MarkImages
                         => buttons'[k].image = buttons[k].image]_vars

\* the image a button shows for a revealed tile: its number, or a bomb
RevealedImages(ts, k) ==
    IF ts[k].is_safe THEN {tile_number_image(ts[k].number)}
                     ELSE {"tile_bomb", "tile_red"}

\* C31: after click_button has handled a click, whatever its outcome (single
\* reveal, cascade, loss or win), the button of every tile the click revealed
\* is disabled and shows the revealed image of the tile.
C31_RevealedTilesShown ==
    [][\A k \in Revealed :
          /\ buttons'[k].is_disabled
          /\ buttons'[k].image \in RevealedImages(tiles', k)]_vars

-----------------------------------------------------------------------------
(* Claim about the best times, checked under SpecTimes *)

\* the step is a click that wins the game
WinningClick == ~is_frozen /\ is_frozen' /\ game_is_won_on(tiles')

\* C32: a click that wins the game, at any of the four levels, freezes the game
\* and click_button ends without an exception; the best time of the current
\* level becomes (game.time, the name entered) exactly when game.time is
\* strictly lower than the stored time, and otherwise no best time changes.
C32_WinRecordsBestTime ==
    [][WinningClick
         => /\ last'.op # "KeyError"
            /\ current_difficulty_level \in DOMAIN best_times
            /\ IF time < best_times[current_difficulty_level].time
               THEN \E name \in Names :
                       best_times' = [best_times EXCEPT
                                         ![current_difficulty_level] =
                                             BestTime(time, name)]
               ELSE best_times' = best_times]_vars

-----------------------------------------------------------------------------
(* Further claims about the application, checked under SpecApp *)

-----------------------------------------------------------------------------
(* Claim about the custom dialog, checked under SpecDialog *)

\* C35: whatever is typed into the three entries of the custom dialog, the
\* values it returns for setup have rows in 9..24, columns in 9..30 and
\* 10 <= bombs <= (rows - 1) * (columns - 1).
C35_CustomValuesInRange ==
    dialog_values # NoResult
        => /\ dialog_values.rows \in 9..24
           /\ dialog_values.columns \in 9..30
           /\ dialog_values.bombs >= 10
           /\ dialog_values.bombs <= (dialog_values.rows - 1) * (dialog_values.columns - 1)

-----------------------------------------------------------------------------
(* Claim about flags and reveals in the engine, checked under Spec *)

\* C36: in every state reached by setup, scatter_bombs, click_tile, mark_tile,
\* click_all_bombs and reset no tile is both revealed and marked 'flag'; no
\* step reveals a flagged tile and no step flags a revealed one.
C36_NeverRevealedAndFlagged ==
    /\ [](\A k \in DOMAIN tiles : ~(tiles[k].is_clicked /\ tiles[k].mark = "flag"))
    /\ [][\A k \in DOMAIN tiles \cap DOMAIN tiles' :
             /\ ~(tiles[k].mark = "flag" /\ ~tiles[k].is_clicked /\ tiles'[k].is_clicked)
             /\ ~(tiles[k].is_clicked /\ tiles'[k].mark = "flag")]_vars

\* C36 witness: click_all_bombs has run on a board with two bombs, one of them
\* flagged: the flagged one is still hidden, the other one is revealed.
C36_Witness ==
    /\ last.op = "click_all_bombs"
    /\ \E k \in Bombs(tiles) : tiles[k].mark = "flag" /\ ~tiles[k].is_clicked
    /\ \E k \in Bombs(tiles) : tiles[k].mark # "flag" /\ tiles[k].is_clicked

=============================================================================
